---- MODULE Spec2Model ----
(***************************************************************************)
(* Model of the crypto_signer extension (signer/src/lib.rs): the           *)
(* ProductionSigner type with new / from_bytes / sign / public_key, and    *)
(* the three exported functions sign_digest, sign_transaction and          *)
(* get_public_key.                                                         *)
(*                                                                         *)
(* Strings are tuples of one-character strings, byte vectors are tuples    *)
(* of integers 0..255.  The hex codec and the prefix trimming are modelled *)
(* character by character.  The elliptic-curve primitives (ECDSA signing,  *)
(* public point, Keccak-256) are replaced by small arithmetic mixing       *)
(* functions that keep what the callers rely on: the output lengths, the   *)
(* inputs the output depends on, and which inputs are rejected.            *)
(***************************************************************************)
EXTENDS Integers, Sequences, FiniteSets, TLC

VARIABLES calls, memo

vars == <<calls, memo>>

\* ------------------------------------------------------------------ bounds

\* Number of call slots (calls that may be in progress at the same time).
NumCalls == 2

\* Largest value of the measured latency, in abstract clock ticks.
MaxLatency == 1

\* ------------------------------------------------------- program constants

\* `digest.len() != 32`
DigestLen == 32

\* `v: 27, // Default recovery ID for Ethereum`
DefaultV == 27

\* `sig_bytes[..32]` / `sig_bytes[32..]`
SplitAt == 32

\* Length of a secp256k1 field element / scalar (FieldBytes).
FieldLen == 32

\* ---------------------------------------------------------------- options

None == <<>>

Some(x) == <<x>>

Get(o) == o[1]

\* ------------------------------------------------------------ small helpers

Rep(x, n) == [i \in 1..n |-> x]

Drop(s, n) == SubSeq(s, n + 1, Len(s))

RECURSIVE WSumTo(_, _)
WSumTo(b, n) == IF n = 0 THEN 0 ELSE (n * b[n] + WSumTo(b, n - 1)) % 65521

\* Position-weighted byte sum, the only "arithmetic" of the stand-in primitives.
WSum(b) == WSumTo(b, Len(b))

\* --------------------------------------------------------------- hex codec

HexDigits == <<"0", "1", "2", "3", "4", "5", "6", "7",
               "8", "9", "a", "b", "c", "d", "e", "f">>

UpperDigits == <<"0", "1", "2", "3", "4", "5", "6", "7",
                 "8", "9", "A", "B", "C", "D", "E", "F">>

IsHexChar(ch) == \E i \in 1..16 : HexDigits[i] = ch \/ UpperDigits[i] = ch

\* hex's val(): the value of one hex digit, either case.
HexVal(ch) == (CHOOSE i \in 1..16 : HexDigits[i] = ch \/ UpperDigits[i] = ch) - 1

\* hex::encode: two lower-case digits per byte, high nibble first.
HexEncode(bytes) ==
    [i \in 1..(2 * Len(bytes)) |->
        IF i % 2 = 1 THEN HexDigits[(bytes[(i + 1) \div 2] \div 16) + 1]
                     ELSE HexDigits[(bytes[i \div 2] % 16) + 1]]

\* hex::decode: OddLength is reported first, then the first invalid character.
HexDecode(s) ==
    IF Len(s) % 2 = 1
    THEN [ok |-> FALSE, bytes |-> <<>>, reason |-> "OddLength"]
    ELSE IF \E i \in 1..Len(s) : ~IsHexChar(s[i])
    THEN [ok |-> FALSE, bytes |-> <<>>, reason |-> "InvalidHexCharacter"]
    ELSE [ok |-> TRUE,
          bytes |-> [i \in 1..(Len(s) \div 2) |->
                        16 * HexVal(s[2 * i - 1]) + HexVal(s[2 * i])],
          reason |-> ""]

RECURSIVE TrimStart0x(_)
\* str::trim_start_matches("0x"): removes the prefix as long as it matches.
TrimStart0x(s) ==
    IF Len(s) >= 2 /\ s[1] = "0" /\ s[2] = "x" THEN TrimStart0x(Drop(s, 2)) ELSE s

\* format!("0x{}", hex::encode(bytes))
Hex0x(bytes) == <<"0", "x">> \o HexEncode(bytes)

\* ------------------------------------------------- stand-ins for primitives

\* Order n of the secp256k1 group, big-endian (k256's Secp256k1::ORDER); a
\* private scalar must lie in 1..n-1.
CurveOrder ==
    Rep(255, 15) \o <<254, 186, 174, 220, 230, 175, 72, 160, 59,
                      191, 210, 94, 140, 208, 54, 65, 65>>

\* Big-endian comparison a < b of two byte vectors of equal length.
BytesLess(a, b) ==
    \E i \in 1..Len(a) : a[i] < b[i] /\ \A j \in 1..(i - 1) : a[j] = b[j]

\* NonZeroScalar: what SigningKey::from_bytes accepts among 32-byte inputs.
ValidScalar(b) ==
    /\ Len(b) = FieldLen
    /\ \E i \in 1..Len(b) : b[i] # 0
    /\ BytesLess(b, CurveOrder)

\* Stand-in for SHA-256, which k256's Signer::sign applies to its message.
PrehashSha256(msg) ==
    LET w == WSum(msg)
    IN  [i \in 1..32 |-> (w * (i + 2) + 11 * Len(msg) + i) % 256]

\* A hash of the same family with a 64-byte output (Keccak-512).
Keccak512(msg) ==
    LET w == WSum(msg)
    IN  [i \in 1..64 |-> (w * i + 197 + Len(msg)) % 256]

\* Stand-in for Keccak256::digest: any message, a 32-byte output.
Keccak256(msg) ==
    LET w == WSum(msg)
    IN  [i \in 1..32 |-> (w * i + 197 + Len(msg)) % 256]

\* Stand-in for the RFC 6979 nonce: a function of the key and the prehash only.
Rfc6979Nonce(d, z) == 1 + ((WSum(d) * 31 + WSum(z) * 17) % 251)

\* A nonce taken from the random source instead (RandomizedSigner).
RandomNonce(d, z, rnd) == 1 + ((Rfc6979Nonce(d, z) + 97 * rnd) % 251)

\* The nonce Signer::sign uses: deterministic, the random source is not read.
SigningNonce(d, z, rnd) == Rfc6979Nonce(d, z)

\* Stand-in for the ECDSA equations: r depends on the nonce, s on nonce,
\* prehash, r and the private scalar.  Output is r || s, 32 bytes each.
EcdsaSign(d, z, k) ==
    LET wz == WSum(z)
        wd == WSum(d)
        r == [i \in 1..32 |-> (k * i + 7 * i * i) % 256]
        s == [i \in 1..32 |-> (wz + r[i] * wd + k + i) % 256]
    IN  r \o s

\* Stand-in for the parity of the nonce point (the true recovery bit).
RecoveryBit(sig_bytes) == (sig_bytes[1] + sig_bytes[Len(sig_bytes)]) % 2

\* Stand-in for the uncompressed SEC1 point: tag 0x04, then X and Y.
PublicPoint(d) ==
    LET wd == WSum(d)
    IN  <<4>> \o [i \in 1..32 |-> (wd * 3 + i) % 256]
              \o [i \in 1..32 |-> (wd * 5 + 2 * i) % 256]

\* payload.as_bytes() for the characters the payloads use.
AsByte(ch) ==
    CASE ch = "h" -> 104 [] ch = "e" -> 101 [] ch = "l" -> 108
      [] ch = "o" -> 111 [] ch = "0" -> 48  [] ch = "x" -> 120 [] OTHER -> 63

AsBytes(s) == [i \in 1..Len(s) |-> AsByte(s[i])]

\* ------------------------------------------------------------------ errors

\* PyValueError::new_err(format!("Invalid hex digest: {}", e))
InvalidHexDigest(reason) ==
    [exc |-> "PyValueError", kind |-> "InvalidHexDigest",
     expected |-> 0, actual |-> 0, reason |-> reason]

\* PyValueError::new_err(format!("Invalid hex key: {}", e))
InvalidHexKey(reason) ==
    [exc |-> "PyValueError", kind |-> "InvalidHexKey",
     expected |-> 0, actual |-> 0, reason |-> reason]

\* format!("Invalid key bytes: {}", e), e being k256's opaque signature::Error
InvalidKeyBytes ==
    [exc |-> "PyValueError", kind |-> "InvalidKeyBytes",
     expected |-> 0, actual |-> 0, reason |-> "signature error"]

\* format!("Digest must be 32 bytes, got {}", digest.len())
InvalidDigestLength(digest) ==
    [exc |-> "PyValueError", kind |-> "InvalidDigestLength",
     expected |-> DigestLen, actual |-> Len(digest), reason |-> ""]

\* The panic of `key_bytes.into()`: converting a slice to &GenericArray<u8, U32>
\* asserts that the lengths agree.  pyo3 surfaces a panic as PanicException.
SliceLengthPanic(key_bytes) ==
    [exc |-> "PanicException", kind |-> "SliceLengthMismatch",
     expected |-> FieldLen, actual |-> Len(key_bytes), reason |-> "assertion failed"]

\* -------------------------------------------------------- ProductionSigner

\* ProductionSigner::from_bytes: "panic", "err" or "ok".
from_bytes(key_bytes) ==
    IF Len(key_bytes) # FieldLen
    THEN [out |-> "panic", err |-> SliceLengthPanic(key_bytes)]
    ELSE IF ~ValidScalar(key_bytes)
    THEN [out |-> "err", err |-> InvalidKeyBytes]
    ELSE [out |-> "ok", err |-> InvalidKeyBytes]

\* `digest.len() != 32` rejects with `<` in place of `!=`.
DigestLenAtLeast(digest) == Len(digest) >= DigestLen

\* The guard of sign: the digest passes iff it has exactly 32 bytes.
DigestLenOk(digest) == Len(digest) = DigestLen

\* self.key.sign(digest).to_bytes()
SignerSign(key, digest, rnd) ==
    LET z == PrehashSha256(digest)
    IN  EcdsaSign(key, z, SigningNonce(key, z, rnd))

\* r taken one byte short (sig_bytes[..31]).
ExtractRShort(sig_bytes) == SubSeq(sig_bytes, 1, SplitAt - 1)

\* sig_bytes[..32].to_vec()
ExtractR(sig_bytes) == SubSeq(sig_bytes, 1, SplitAt)

\* sig_bytes[32..].to_vec()
ExtractS(sig_bytes) == SubSeq(sig_bytes, SplitAt + 1, Len(sig_bytes))

\* v computed from the signature's recovery bit.
RecoveryIdComputed(sig_bytes) == DefaultV + RecoveryBit(sig_bytes)

\* The v field of the result: the constant, whatever the signature.
RecoveryId(sig_bytes) == DefaultV

\* The SignatureResult built at the end of sign.
SignatureResultOf(sig_bytes, latency_ms) ==
    [signature |-> sig_bytes,
     r |-> ExtractR(sig_bytes),
     s |-> ExtractS(sig_bytes),
     v |-> RecoveryId(sig_bytes),
     latency_ms |-> latency_ms]

\* ProductionSigner::sign as one function of its inputs, the random source
\* and the clock.
sign(key, digest, rnd, latency_ms) ==
    IF ~DigestLenOk(digest)
    THEN [ok |-> FALSE, err |-> Some(InvalidDigestLength(digest)), result |-> None]
    ELSE [ok |-> TRUE, err |-> None,
          result |-> Some(SignatureResultOf(SignerSign(key, digest, rnd), latency_ms))]

\* ProductionSigner::public_key
public_key(key) == PublicPoint(key)

\* The dict of sign_digest without the "v" item.
PyDictWithoutV(result) ==
    [signature |-> Hex0x(result.signature),
     r |-> Hex0x(result.r),
     s |-> Hex0x(result.s),
     latency_ms |-> result.latency_ms]

\* The dict sign_digest returns.
PyDictOf(result) ==
    [signature |-> Hex0x(result.signature),
     r |-> Hex0x(result.r),
     s |-> Hex0x(result.s),
     v |-> result.v,
     latency_ms |-> result.latency_ms]

\* ------------------------------------------------------------------ inputs

P0x == <<"0", "x">>

\* Digest arguments of sign_digest.
DHexZero  == P0x \o Rep("0", 64)
DHexMixed == [i \in 1..64 |-> IF i % 2 = 1 THEN "A" ELSE "b"]
DHexTwice == P0x \o P0x \o Rep("0", 64)
DHexOdd   == P0x \o <<"a", "b", "c">>
DHexBad   == <<"z", "z">>
DHexShort == P0x \o Rep("0", 32)
DHexEmpty == <<>>
DHexLong  == P0x \o Rep("0", 66)

DigestArgs == {DHexZero, DHexMixed, DHexTwice, DHexOdd, DHexBad,
               DHexShort, DHexEmpty, DHexLong}

\* Private scalars: 1 and n-1 are the ends of the valid range.
KeyOne == Rep(0, 31) \o <<1>>
KeyMax == [CurveOrder EXCEPT ![32] = @ - 1]

\* Key arguments of sign_digest and get_public_key.
KHexOne   == P0x \o HexEncode(KeyOne)
KHexMax   == HexEncode(KeyMax)
KHexZero  == P0x \o Rep("0", 64)
KHexOrder == P0x \o HexEncode(CurveOrder)
KHexOver  == P0x \o Rep("F", 64)
KHexShort == P0x \o <<"0", "1">>
KHexLong  == P0x \o Rep("0", 64) \o <<"0", "1">>
KHexBad   == P0x \o <<"g", "g">>
KHexTwice == P0x \o P0x \o HexEncode(KeyOne)

KeyArgs == {KHexOne, KHexMax, KHexZero, KHexOrder, KHexOver, KHexShort,
            KHexLong, KHexBad, KHexTwice}

\* Payloads of sign_transaction.
Hello == <<"h", "e", "l", "l", "o">>

Payloads == {<<>>, Hello}

\* Scalars SigningKey::random may draw, and draws of the random source.
FreshKeys == {KeyOne, KeyMax}

OsRngDraws == {0, 1}

\* Option<&str> values of key_hex.
Supplied(keys) == {Some(k) : k \in keys}

\* The inputs of the runs with overlapping calls.
ConcDigestArgs == {DHexZero}

ConcKeyArgs == {KHexOne, KHexShort}

\* ------------------------------------------------------------------- state

Calls == 1..NumCalls

Terminal == {"returned", "raised"}

\* A call slot in which no call is running.
Idle ==
    [op |-> "idle", pc |-> "idle", arg |-> <<>>, key_hex |-> None,
     digest_bytes |-> None, key_bytes |-> None, signer |-> None,
     start |-> "off", measured |-> {}, result |-> None,
     ret_dict |-> None, ret_str |-> None, err |-> None,
     keysBuilt |-> 0, primCalls |-> 0]

\* A call whose clock is already running when it is entered.
NewCallTimed(op, pc, arg, key_hex) ==
    [Idle EXCEPT !.op = op, !.pc = pc, !.arg = arg, !.key_hex = key_hex,
                 !.start = "running"]

\* The frame of a call on entry: arguments bound, nothing computed, no clock.
NewCall(op, pc, arg, key_hex) ==
    [Idle EXCEPT !.op = op, !.pc = pc, !.arg = arg, !.key_hex = key_hex]

\* Records the step in the measured interval if the clock of sign is running.
Tick(call, step) ==
    IF call.start = "running" THEN [call EXCEPT !.measured = @ \cup {step}]
    ELSE call

\* `?` on an Err, or a panic: the call ends with the error and nothing else.
Raise(call, e) == [call EXCEPT !.pc = "raised", !.err = Some(e)]

\* One signer kept in a place all calls use.
StoreSignerShared(cs, c, k) ==
    [x \in DOMAIN cs |->
        IF x = c
        THEN [cs[x] EXCEPT !.signer = Some([key |-> k, owner |-> c]),
                           !.keysBuilt = @ + 1]
        ELSE IF cs[x].signer = None THEN cs[x]
        ELSE [cs[x] EXCEPT !.signer = Some([key |-> k, owner |-> c])]]

\* `let signer = ...`: the signer is a local of the call that built it.
StoreSigner(cs, c, k) ==
    [cs EXCEPT ![c].signer = Some([key |-> k, owner |-> c]),
               ![c].keysBuilt = @ + 1]

Init ==
    /\ calls = [c \in Calls |-> Idle]
    /\ memo = None

\* ----------------------------------------------------------------- actions

\* Entry of sign_digest(digest, key_hex).
CallSignDigest(c, digests, keys) ==
    /\ calls[c].pc = "idle"
    /\ \E digest \in digests, key_hex \in keys :
          calls' = [calls EXCEPT
                      ![c] = NewCall("sign_digest", "decode_digest", digest, key_hex)]
    /\ UNCHANGED memo

\* Entry of sign_transaction(payload).
CallSignTransaction(c, payloads) ==
    /\ calls[c].pc = "idle"
    /\ \E payload \in payloads :
          calls' = [calls EXCEPT
                      ![c] = NewCall("sign_transaction", "hash", payload, None)]
    /\ UNCHANGED memo

\* Entry of get_public_key(key_hex).
CallGetPublicKey(c, keys) ==
    /\ calls[c].pc = "idle"
    /\ \E key_hex \in keys :
          calls' = [calls EXCEPT
                      ![c] = NewCall("get_public_key", "make_signer", <<>>, key_hex)]
    /\ UNCHANGED memo

\* sign_digest: hex::decode(digest.trim_start_matches("0x")).map_err(..)?
DecodeDigest(c) ==
    /\ calls[c].pc = "decode_digest"
    /\ LET call == Tick(calls[c], "decode_digest")
           d == HexDecode(TrimStart0x(call.arg))
       IN  calls' = [calls EXCEPT ![c] =
              IF d.ok
              THEN [call EXCEPT !.digest_bytes = Some(d.bytes), !.pc = "make_signer"]
              ELSE Raise(call, InvalidHexDigest(d.reason))]
    /\ UNCHANGED memo

\* sign_transaction: Keccak256::digest(payload.as_bytes())
HashPayload(c) ==
    /\ calls[c].pc = "hash"
    /\ LET call == Tick(calls[c], "hash")
       IN  calls' = [calls EXCEPT ![c] =
              [call EXCEPT !.digest_bytes = Some(Keccak256(AsBytes(call.arg))),
                           !.pc = "make_signer"]]
    /\ UNCHANGED memo

\* Where a call goes once it holds its signer.
AfterSigner(op) == IF op = "get_public_key" THEN "public_key" ELSE "sign_enter"

\* The supplied key: hex::decode(key.trim_start_matches("0x")), then
\* ProductionSigner::from_bytes(&key_bytes).
MakeSignerFromHex(c) ==
    /\ calls[c].pc = "make_signer"
    /\ calls[c].key_hex # None
    /\ LET call == Tick(calls[c], "make_signer")
           d == HexDecode(TrimStart0x(Get(call.key_hex)))
           decoded == [call EXCEPT !.key_bytes = Some(d.bytes)]
           made == from_bytes(d.bytes)
       IN  calls' =
              IF ~d.ok
              THEN [calls EXCEPT ![c] = Raise(call, InvalidHexKey(d.reason))]
              ELSE IF made.out # "ok"
              THEN [calls EXCEPT ![c] = Raise(decoded, made.err)]
              ELSE StoreSigner(
                      [calls EXCEPT ![c] = [decoded EXCEPT !.pc = AfterSigner(call.op)]],
                      c, d.bytes)
    /\ UNCHANGED memo

\* No key supplied: ProductionSigner::new(), SigningKey::random(&mut OsRng).
MakeSignerNew(c) ==
    /\ calls[c].pc = "make_signer"
    /\ calls[c].key_hex = None
    /\ \E k \in FreshKeys :
          calls' = StoreSigner(
                      [calls EXCEPT ![c] = [Tick(calls[c], "make_signer")
                                               EXCEPT !.pc = "sign_enter"]],
                      c, k)
    /\ UNCHANGED memo

\* sign: let start = Instant::now();
SignEnter(c) ==
    /\ calls[c].pc = "sign_enter"
    /\ calls' = [calls EXCEPT ![c].start = "running", ![c].pc = "check_len"]
    /\ UNCHANGED memo

\* sign: if digest.len() != 32 { return Err(..) }
CheckLen(c) ==
    /\ calls[c].pc = "check_len"
    /\ LET call == Tick(calls[c], "check_len")
           digest == Get(call.digest_bytes)
       IN  calls' = [calls EXCEPT ![c] =
              IF DigestLenOk(digest) THEN [call EXCEPT !.pc = "sign_compute"]
              ELSE Raise(call, InvalidDigestLength(digest))]
    /\ UNCHANGED memo

\* sign: the signature, its two halves, start.elapsed(), the SignatureResult.
SignCompute(c) ==
    /\ calls[c].pc = "sign_compute"
    /\ \E rnd \in OsRngDraws, latency_ms \in 0..MaxLatency :
          LET call == Tick(calls[c], "sign_compute")
              sig_bytes == SignerSign(Get(call.signer).key, Get(call.digest_bytes), rnd)
          IN  calls' = [calls EXCEPT ![c] =
                 [call EXCEPT !.primCalls = @ + 1,
                              !.start = "stopped",
                              !.result = Some(SignatureResultOf(sig_bytes, latency_ms)),
                              !.pc = "build_ret"]]
    /\ UNCHANGED memo

\* sign_digest builds its dict; sign_transaction formats the signature.
BuildReturn(c) ==
    /\ calls[c].pc = "build_ret"
    /\ LET call == Tick(calls[c], "build_ret")
           result == Get(call.result)
       IN  calls' = [calls EXCEPT ![c] =
              IF call.op = "sign_digest"
              THEN [call EXCEPT !.ret_dict = Some(PyDictOf(result)), !.pc = "returned"]
              ELSE [call EXCEPT !.ret_str = Some(Hex0x(result.signature)),
                                !.pc = "returned"]]
    /\ UNCHANGED memo

\* get_public_key: format!("0x{}", hex::encode(signer.public_key()))
PublicKey(c) ==
    /\ calls[c].pc = "public_key"
    /\ LET call == Tick(calls[c], "public_key")
       IN  calls' = [calls EXCEPT ![c] =
              [call EXCEPT !.ret_str = Some(Hex0x(public_key(Get(call.signer).key))),
                           !.pc = "returned"]]
    /\ UNCHANGED memo

\* The caller has its value or its exception; every local is dropped.
Return(c) ==
    /\ calls[c].pc \in Terminal
    /\ calls' = [calls EXCEPT ![c] = Idle]
    /\ UNCHANGED memo

\* What an observer keeps of one SignatureResult: the key and digest it was
\* made from and its four deterministic fields.
Observation(call) ==
    [key |-> Get(call.signer).key, digest |-> Get(call.digest_bytes),
     signature |-> Get(call.result).signature, r |-> Get(call.result).r,
     s |-> Get(call.result).s, v |-> Get(call.result).v]

\* History: an observer remembers the SignatureResult of a finished sign.
Observe(c) ==
    /\ calls[c].pc = "returned"
    /\ calls[c].result # None
    /\ memo # Some(Observation(calls[c]))
    /\ memo' = Some(Observation(calls[c]))
    /\ UNCHANGED calls

Step(c) ==
    \/ DecodeDigest(c)
    \/ HashPayload(c)
    \/ MakeSignerFromHex(c)
    \/ MakeSignerNew(c)
    \/ SignEnter(c)
    \/ CheckLen(c)
    \/ SignCompute(c)
    \/ BuildReturn(c)
    \/ PublicKey(c)
    \/ Return(c)

\* No call is in progress: the exported functions run one at a time (each
\* holds the interpreter lock from entry to return).
Quiet == \A c \in Calls : calls[c].pc = "idle"

SeqCall(c) ==
    /\ Quiet
    /\ \/ CallSignDigest(c, DigestArgs, {None} \cup Supplied(KeyArgs))
       \/ CallSignTransaction(c, Payloads)
       \/ CallGetPublicKey(c, Supplied(KeyArgs))

\* Calls may start while others are in progress.
ConcCall(c) ==
    \/ CallSignDigest(c, ConcDigestArgs, Supplied({KHexOne}))
    \/ CallSignTransaction(c, {Hello})
    \/ CallGetPublicKey(c, Supplied(ConcKeyArgs))

\* One call at a time, all inputs, with the observer.
Next == \E c \in Calls : SeqCall(c) \/ Step(c) \/ Observe(c)

Spec == Init /\ [][Next]_vars

\* Overlapping calls, interleaved step by step.
NextConc == \E c \in Calls : ConcCall(c) \/ Step(c)

SpecConc == Init /\ [][NextConc]_vars

\* ------------------------------------------- the exported functions, whole

\* What the caller of an exported function gets.
Failed(e) == [err |-> Some(e), ret_dict |-> None, ret_str |-> None]

ReturnedDict(d) == [err |-> None, ret_dict |-> Some(d), ret_str |-> None]

ReturnedStr(t) == [err |-> None, ret_dict |-> None, ret_str |-> Some(t)]

Outcome(call) == [err |-> call.err, ret_dict |-> call.ret_dict, ret_str |-> call.ret_str]

\* sign_digest(digest, Some(key)) run from entry to return: its possible
\* outcomes over the clock and the random source.
SignDigestAlone(digest, key) ==
    LET dd == HexDecode(TrimStart0x(digest))
        kd == HexDecode(TrimStart0x(key))
        made == from_bytes(kd.bytes)
    IN  IF ~dd.ok THEN {Failed(InvalidHexDigest(dd.reason))}
        ELSE IF ~kd.ok THEN {Failed(InvalidHexKey(kd.reason))}
        ELSE IF made.out # "ok" THEN {Failed(made.err)}
        ELSE {LET sg == sign(kd.bytes, dd.bytes, rnd, latency_ms)
              IN  IF sg.ok THEN ReturnedDict(PyDictOf(Get(sg.result)))
                  ELSE Failed(Get(sg.err)) :
              rnd \in OsRngDraws, latency_ms \in 0..MaxLatency}

\* get_public_key(key) run from entry to return.
GetPublicKeyAlone(key) ==
    LET kd == HexDecode(TrimStart0x(key))
        made == from_bytes(kd.bytes)
    IN  IF ~kd.ok THEN {Failed(InvalidHexKey(kd.reason))}
        ELSE IF made.out # "ok" THEN {Failed(made.err)}
        ELSE {ReturnedStr(Hex0x(public_key(kd.bytes)))}

\* ------------------------------------------------------ vocabulary of claims

Five == {"signature", "r", "s", "v", "latency_ms"}

\* sign has been entered by the call.
SignEntered(call) == call.start # "off"

\* sign has been entered and is past its length check.
PastCheck(call) == SignEntered(call) /\ call.pc # "check_len"

\* sign has returned, with a result or an error.
SignReturned(call) == SignEntered(call) /\ call.pc \in {"build_ret", "returned", "raised"}

\* s is "0x" followed by n lower-case hex digits.
IsHex0x(s, n) ==
    /\ Len(s) = n + 2
    /\ s[1] = "0" /\ s[2] = "x"
    /\ \A i \in 3..Len(s) : \E j \in 1..16 : HexDigits[j] = s[i]

\* At most one leading "0x", then exactly 64 hex digits.
StrictHex32(s) ==
    LET t == IF Len(s) >= 2 /\ s[1] = "0" /\ s[2] = "x" THEN Drop(s, 2) ELSE s
    IN  Len(t) = 2 * FieldLen /\ \A i \in 1..Len(t) : IsHexChar(t[i])

\* ------------------------------------------------------------------ claims

\* C1: whenever sign has returned for a valid key and a digest of exactly 32
\* bytes, it has returned a SignatureResult and no error; the signature has 64
\* bytes, r and s have 32 bytes each, r is the first half of the signature, s
\* the second half, and r || s is the signature.
C1_SignShape ==
    \A c \in Calls :
        LET call == calls[c]
        IN  (/\ SignReturned(call)
             /\ ValidScalar(Get(call.signer).key)
             /\ Len(Get(call.digest_bytes)) = 32)
            => /\ call.result # None
               /\ call.err = None
               /\ call.pc # "raised"
               /\ LET res == Get(call.result)
                  IN  /\ Len(res.signature) = 64
                      /\ Len(res.r) = 32
                      /\ Len(res.s) = 32
                      /\ res.r = SubSeq(res.signature, 1, 32)
                      /\ res.s = SubSeq(res.signature, 33, 64)
                      /\ res.r \o res.s = res.signature

\* C1 witness: sign has returned a result for a key reconstructed from the
\* largest valid scalar and the 32-byte digest given in mixed-case hex.
C1_Witness ==
    \E c \in Calls :
        /\ calls[c].op = "sign_digest"
        /\ calls[c].key_hex = Some(KHexMax)
        /\ calls[c].arg = DHexMixed
        /\ SignReturned(calls[c])
        /\ calls[c].result # None

\* C2: whenever sign is past its length check with a digest whose length is
\* not 32, the call has ended with the InvalidDigestLength error carrying the
\* expected length 32 and the actual length; the signing primitive was not
\* invoked and there is no SignatureResult and no return value.
C2_BadLengthRejected ==
    \A c \in Calls :
        LET call == calls[c]
        IN  (PastCheck(call) /\ Len(Get(call.digest_bytes)) # 32)
            => /\ call.pc = "raised"
               /\ call.err # None
               /\ Get(call.err).kind = "InvalidDigestLength"
               /\ Get(call.err).expected = 32
               /\ Get(call.err).actual = Len(Get(call.digest_bytes))
               /\ call.primCalls = 0
               /\ call.result = None
               /\ call.ret_dict = None
               /\ call.ret_str = None

\* C2 witness: sign has rejected a digest longer than 32 bytes.
C2_Witness ==
    \E c \in Calls :
        /\ PastCheck(calls[c])
        /\ Len(Get(calls[c].digest_bytes)) > 32
        /\ calls[c].pc = "raised"

C3_InvalidKeyIsError ==
    \A c \in Calls :
        LET call == calls[c]
        IN  (call.key_bytes # None /\ ~ValidScalar(Get(call.key_bytes)))
            => /\ call.pc = "raised"
               /\ call.signer = None
               /\ Get(call.err).exc = "PyValueError"
               /\ Get(call.err).kind = "InvalidKeyBytes"

\* C4: a SignatureResult made from the same key and the same digest as a
\* remembered earlier one has the same signature, r, s and v.
C4_Deterministic ==
    \A c \in Calls :
        LET call == calls[c]
        IN  (/\ call.result # None
             /\ memo # None
             /\ Get(memo).key = Get(call.signer).key
             /\ Get(memo).digest = Get(call.digest_bytes))
            => LET res == Get(call.result)
               IN  /\ res.signature = Get(memo).signature
                   /\ res.r = Get(memo).r
                   /\ res.s = Get(memo).s
                   /\ res.v = Get(memo).v

\* C4 witness: sign has just returned in a call not yet seen by the observer,
\* for the key and digest of a result remembered from an earlier call.
C4_Witness ==
    \E c \in Calls :
        /\ calls[c].pc = "build_ret"
        /\ memo # None
        /\ Get(memo).key = Get(calls[c].signer).key
        /\ Get(memo).digest = Get(calls[c].digest_bytes)

\* C5: a sign_digest call holds a dict only when it has returned, and then
\* the dict has exactly the five items and there is no error; a call that has
\* raised holds an error and no dict; a call that has returned holds a dict.
C5_NoPartialSuccess ==
    \A c \in Calls :
        LET call == calls[c]
        IN  call.op = "sign_digest"
            => /\ call.ret_str = None
               /\ call.ret_dict # None
                    => /\ call.pc = "returned"
                       /\ call.err = None
                       /\ DOMAIN Get(call.ret_dict) = Five
                       /\ IsHex0x(Get(call.ret_dict).signature, 128)
                       /\ IsHex0x(Get(call.ret_dict).r, 64)
                       /\ IsHex0x(Get(call.ret_dict).s, 64)
               /\ call.pc = "raised" => call.ret_dict = None /\ call.err # None
               /\ call.pc = "returned" => call.ret_dict # None

\* C5 witness: sign_digest has failed on its last failure path, the digest
\* length, after decoding both arguments and building the signer.
C5_Witness ==
    \E c \in Calls :
        /\ calls[c].op = "sign_digest"
        /\ calls[c].key_hex # None
        /\ calls[c].pc = "raised"
        /\ Get(calls[c].err).kind = "InvalidDigestLength"

\* C6 (as claimed): a digest argument that sign has accepted, and a key
\* argument a signer was built from, is at most one "0x" followed by exactly
\* 64 hex digits; a finished call given any other digest or key argument has
\* failed and returned nothing.
C6_HexArgsStrict ==
    \A c \in Calls :
        LET call == calls[c]
        IN  /\ (call.op = "sign_digest" /\ PastCheck(call) /\ call.pc # "raised")
                 => StrictHex32(call.arg)
            /\ (call.key_hex # None /\ call.signer # None)
                 => StrictHex32(Get(call.key_hex))
            /\ (/\ call.pc \in Terminal
                /\ \/ call.op = "sign_digest" /\ ~StrictHex32(call.arg)
                   \/ call.key_hex # None /\ ~StrictHex32(Get(call.key_hex)))
                 => /\ call.pc = "raised"
                    /\ call.err # None
                    /\ call.ret_dict = None /\ call.ret_str = None

\* C7: a sign_transaction call never raises; its signer is a generated key;
\* the digest it hands to sign has 32 bytes; what it returns is "0x" followed
\* by exactly 128 hex digits, the encoding of the signature.
C7_TransactionSigns ==
    \A c \in Calls :
        LET call == calls[c]
        IN  call.op = "sign_transaction"
            => /\ call.pc # "raised"
               /\ call.err = None
               /\ call.key_hex = None
               /\ call.digest_bytes # None => Len(Get(call.digest_bytes)) = 32
               /\ call.signer # None => Get(call.signer).key \in FreshKeys
               /\ call.pc = "returned"
                    => /\ call.ret_str # None
                       /\ IsHex0x(Get(call.ret_str), 128)
                       /\ Get(call.ret_str) = Hex0x(Get(call.result).signature)

\* C7 witness: sign_transaction has returned for the empty payload.
C7_Witness ==
    \E c \in Calls :
        /\ calls[c].op = "sign_transaction"
        /\ calls[c].arg = <<>>
        /\ calls[c].pc = "returned"

\* C10 (as claimed): no input-handling step (hex decoding, hashing, key
\* generation or reconstruction, digest-length validation) is ever inside the
\* measured interval.
C10_TimerAfterAllValidation ==
    \A c \in Calls :
        calls[c].measured \cap {"decode_digest", "hash", "make_signer", "check_len"} = {}

\* C10 (amended): hex decoding, hashing and key construction are never inside
\* the measured interval and neither is the building of the return value; the
\* interval starts at the entry of sign, so once it is closed it holds exactly
\* the digest-length check and the signature computation; a call has a latency
\* only from a closed interval.
C10_TimerAroundSign ==
    \A c \in Calls :
        LET call == calls[c]
        IN  /\ call.measured \cap {"decode_digest", "hash", "make_signer",
                                   "build_ret", "public_key"} = {}
            /\ call.start = "stopped" => call.measured = {"check_len", "sign_compute"}
            /\ call.result # None <=> call.start = "stopped"
            /\ call.start = "running" => call.pc \in {"check_len", "sign_compute", "raised"}

\* C10 witness: sign_digest with a supplied key has returned its dict, the
\* interval closed.
C10_Witness ==
    \E c \in Calls :
        /\ calls[c].op = "sign_digest"
        /\ calls[c].key_hex # None
        /\ calls[c].pc = "returned"
        /\ calls[c].start = "stopped"
        /\ "check_len" \in calls[c].measured

\* C8 (as claimed): every finished call has built exactly one key, which it
\* owns.
C8_ExactlyOneKey ==
    \A c \in Calls :
        calls[c].pc \in Terminal
            => /\ calls[c].keysBuilt = 1
               /\ Get(calls[c].signer).owner = c

\* C8 (amended): every call builds at most one key, and exactly one if it
\* returns a value; the signer a call holds was built by that call; a finished
\* call that was given a key has an outcome it can have when run alone.
C8_CallsIndependent ==
    \A c \in Calls :
        LET call == calls[c]
        IN  /\ call.keysBuilt <= 1
            /\ call.pc = "returned" => call.keysBuilt = 1
            /\ call.signer # None
                 => /\ Get(call.signer).owner = c
                    /\ call.keysBuilt = 1
                    /\ call.key_bytes # None => Get(call.signer).key = Get(call.key_bytes)
            /\ (call.pc \in Terminal /\ call.op = "sign_digest")
                 => Outcome(call) \in SignDigestAlone(call.arg, Get(call.key_hex))
            /\ (call.pc \in Terminal /\ call.op = "get_public_key")
                 => Outcome(call) \in GetPublicKeyAlone(Get(call.key_hex))

\* C8 witness: a call given a key has returned while another call, holding
\* a different key, is still inside sign.
C8_Witness ==
    \E c1, c2 \in Calls :
        /\ c1 # c2
        /\ calls[c1].op = "sign_digest"
        /\ calls[c1].pc = "returned"
        /\ calls[c2].pc = "sign_compute"
        /\ Get(calls[c2].signer).key # Get(calls[c1].signer).key

====
